---- MODULE Spec2Model ----
(***************************************************************************)
(* A model of the recipe scraper's normalizers (utils.py) and of its S3    *)
(* image upload (s3_upload.py).                                            *)
(*                                                                         *)
(* A Python string is a sequence of characters; a character is a           *)
(* one-element TLA+ string, except for the three non-ASCII characters the  *)
(* code mentions or mishandles, which are named: "en-dash" (U+2013),       *)
(* "em-dash" (U+2014) and "sup2" (U+00B2, SUPERSCRIPT TWO).                *)
(* A float is an exact rational <<numerator, denominator>>.                *)
(***************************************************************************)
EXTENDS Integers, Sequences, FiniteSets, TLC

VARIABLES
    fn,      \* the function being called
    arg,     \* its argument: None, an int, a float or a str
    given,   \* how the caller built the argument (read by no operation)
    pc,      \* "call": about to run, "done": returned or raised
    ret,     \* the outcome: [ok |-> TRUE, v |-> value] or [ok |-> FALSE, exc |-> name]
    first,   \* the first result of a renormalisation round trip, else NoValue
    up       \* the state of one upload_image_if_configured invocation

vars == <<fn, arg, given, pc, ret, first, up>>

NoValue == [t |-> "novalue"]

----------------------------------------------------------------------------
(* Characters and the str methods the code uses                            *)

DecDigits == <<"0", "1", "2", "3", "4", "5", "6", "7", "8", "9">>

UpperLetters == <<"A", "B", "C", "D", "E", "F", "G", "H", "I", "J", "K", "L", "M",
                  "N", "O", "P", "Q", "R", "S", "T", "U", "V", "W", "X", "Y", "Z">>

LowerLetters == <<"a", "b", "c", "d", "e", "f", "g", "h", "i", "j", "k", "l", "m",
                  "n", "o", "p", "q", "r", "s", "t", "u", "v", "w", "x", "y", "z">>

\* regex \d on a str pattern: the decimal digits (category Nd)
IsDecimal(c) == \E i \in 1..10 : DecDigits[i] = c

DigitVal(c) == (CHOOSE i \in 1..10 : DecDigits[i] = c) - 1

\* str.isdigit() of one character: the decimal digits and the digit-typed
\* characters that are not decimal, such as U+00B2
IsDigitChar(c) == IsDecimal(c) \/ c = "sup2"

IsUpper(c) == \E i \in 1..26 : UpperLetters[i] = c

IsLetter(c) == IsUpper(c) \/ \E i \in 1..26 : LowerLetters[i] = c

\* regex \s and the characters str.strip() removes
IsSpace(c) == c \in {" ", "\t", "\n"}

\* regex \w: alphanumerics (str.isalnum) and the underscore
IsWord(c) == IsDigitChar(c) \/ IsLetter(c) \/ c = "_"

LowerChar(c) == IF IsUpper(c) THEN LowerLetters[CHOOSE i \in 1..26 : UpperLetters[i] = c] ELSE c

\* str.lower()
Lower(s) == [i \in 1..Len(s) |-> LowerChar(s[i])]

\* str.strip()
Strip(s) ==
    LET keep == {i \in 1..Len(s) : ~IsSpace(s[i])}
    IN  IF keep = {} THEN <<>>
        ELSE LET lo == CHOOSE i \in keep : \A j \in keep : i <= j
                 hi == CHOOSE i \in keep : \A j \in keep : j <= i
             IN  SubSeq(s, lo, hi)

\* str.replace(old, new) for a one-character old and new
Replace(s, old, new) == [i \in 1..Len(s) |-> IF s[i] = old THEN new ELSE s[i]]

\* str.isdigit(): non-empty and every character a digit
IsDigit(s) == Len(s) > 0 /\ \A i \in 1..Len(s) : IsDigitChar(s[i])

AllDecimal(s) == \A i \in 1..Len(s) : IsDecimal(s[i])

RECURSIVE DecValue(_)
DecValue(s) == IF Len(s) = 0 THEN 0
               ELSE 10 * DecValue(SubSeq(s, 1, Len(s) - 1)) + DigitVal(s[Len(s)])

Ok(v) == [ok |-> TRUE, v |-> v]
Raise(e) == [ok |-> FALSE, exc |-> e]

\* int(s) of a string of digits: the decimal value, and ValueError for a
\* digit that is not decimal
IntOfStr(s) == IF AllDecimal(s) THEN Ok(DecValue(s)) ELSE Raise("ValueError")

\* s.split(sep): the parts between the separators
RECURSIVE Split(_, _)
Split(s, sep) ==
    LET at == {i \in 1..Len(s) : s[i] = sep}
    IN  IF at = {} THEN <<s>>
        ELSE LET i == CHOOSE k \in at : \A j \in at : k <= j
             IN  <<SubSeq(s, 1, i - 1)>> \o Split(SubSeq(s, i + 1, Len(s)), sep)

\* sub occurs in s at position i
HasAt(s, i, sub) == i + Len(sub) - 1 <= Len(s) /\ SubSeq(s, i, i + Len(sub) - 1) = sub

\* Python's "sub in s"
Contains(s, sub) == \E i \in 1..(Len(s) + 1) : HasAt(s, i, sub)

----------------------------------------------------------------------------
(* Floats as exact rationals, and round()                                  *)

Rat(n, d) == <<n, d>>
RAdd(a, b) == <<a[1] * b[2] + b[1] * a[2], a[2] * b[2]>>
RMul(a, k) == <<a[1] * k, a[2]>>
RDiv(a, k) == <<a[1], a[2] * k>>
RZero == <<0, 1>>
RIsZero(a) == a[1] = 0

RoundTrunc(a) == IF a[1] >= 0 THEN a[1] \div a[2] ELSE -((-a[1]) \div a[2])

\* int(round(x)): to the nearest integer, a tie to the even one
Round(a) ==
    LET q == a[1] \div a[2]
        r == a[1] % a[2]
    IN  IF 2 * r < a[2] THEN q
        ELSE IF 2 * r > a[2] THEN q + 1
        ELSE IF q % 2 = 0 THEN q ELSE q + 1

RECURSIVE Pow10(_)
Pow10(k) == IF k = 0 THEN 1 ELSE 10 * Pow10(k - 1)

\* the end (exclusive) of the run of decimal digits starting at i
RECURSIVE DigitsEnd(_, _)
DigitsEnd(s, i) == IF i <= Len(s) /\ IsDecimal(s[i]) THEN DigitsEnd(s, i + 1) ELSE i

\* the end (exclusive) of the greedy match of \d+(?:\.\d+)? at i, or 0.
\* A shorter match is followed by a digit or a '.', which none of the
\* code's patterns accepts next, so backtracking never finds another.
NumEnd(s, i) ==
    LET e == DigitsEnd(s, i)
    IN  IF e = i THEN 0
        ELSE IF e <= Len(s) /\ s[e] = "." /\ DigitsEnd(s, e + 1) > e + 1
             THEN DigitsEnd(s, e + 1)
             ELSE e

\* float(text) of a match of \d+(?:\.\d+)?
NumValue(t) ==
    LET parts == Split(t, ".")
    IN  IF Len(parts) = 1 THEN Rat(DecValue(t), 1)
        ELSE Rat(DecValue(parts[1] \o parts[2]), Pow10(Len(parts[2])))

----------------------------------------------------------------------------
(* utils.py: parse_time_to_minutes                                         *)

\* the clock pattern \d+:\d{1,2}(?::\d{1,2})? against the whole string
ClockMatch(s) ==
    LET parts == Split(s, ":")
    IN  /\ Len(parts) \in {2, 3}
        /\ Len(parts[1]) >= 1
        /\ \A i \in 1..Len(parts) : AllDecimal(parts[i])
        /\ \A i \in 2..Len(parts) : Len(parts[i]) \in {1, 2}

\* hours * 60 + minutes + seconds / 60.0 of the parts of s.split(":")
ClockMinutes(s) ==
    LET parts == Split(s, ":")
        hours == DecValue(parts[1])
        minutes == DecValue(parts[2])
        seconds == IF Len(parts) = 2 THEN 0 ELSE DecValue(parts[3])
    IN  RAdd(Rat(hours * 60 + minutes, 1), Rat(seconds, 60))

\* one optional group (?:(\d+(?:\.\d+)?)<letter>)? of the ISO pattern at p:
\* the group's text (empty when the group took nothing) and where it ends
IsoField(s, p, letter) ==
    LET e == NumEnd(s, p)
    IN  IF e # 0 /\ e <= Len(s) /\ s[e] = letter
        THEN [text |-> SubSeq(s, p, e - 1), next |-> e + 1]
        ELSE [text |-> <<>>, next |-> p]

\* re.match of ^pt(?:(..)h)?(?:(..)m)?(?:(..)s)?$ : the three groups, or
\* matched = FALSE
IsoMatch(s) ==
    IF ~HasAt(s, 1, <<"p", "t">>) THEN [matched |-> FALSE]
    ELSE LET g1 == IsoField(s, 3, "h")
             g2 == IsoField(s, g1.next, "m")
             g3 == IsoField(s, g2.next, "s")
         IN  IF g3.next = Len(s) + 1
             THEN [matched |-> TRUE, h |-> g1.text, mm |-> g2.text, sec |-> g3.text]
             ELSE [matched |-> FALSE]

GroupValue(text) == IF Len(text) > 0 THEN NumValue(text) ELSE RZero

IsoMinutes(m) ==
    RAdd(RAdd(RMul(GroupValue(m.h), 60), GroupValue(m.mm)), RDiv(GroupValue(m.sec), 60))

\* regex \b after position k - 1, which holds a letter: the end of the
\* string or a character that is not a word character
BoundaryAt(s, k) == k > Len(s) \/ ~IsWord(s[k])

RECURSIVE SpaceEnd(_, _)
SpaceEnd(s, i) == IF i <= Len(s) /\ IsSpace(s[i]) THEN SpaceEnd(s, i + 1) ELSE i

HourWords == {<<"h", "o", "u", "r", "s">>, <<"h", "o", "u", "r">>, <<"h", "r", "s">>,
              <<"h", "r">>, <<"h">>}

MinuteWords == {<<"m", "i", "n", "u", "t", "e", "s">>, <<"m", "i", "n", "u", "t", "e">>,
                <<"m", "i", "n", "s">>, <<"m", "i", "n">>, <<"m">>}

SecondWords == {<<"s", "e", "c", "o", "n", "d", "s">>, <<"s", "e", "c", "o", "n", "d">>,
                <<"s", "e", "c", "s">>, <<"s", "e", "c">>, <<"s">>}

\* a match of (\d+(?:\.\d+)?)\s*(?:<words>)\b starting at i: its number's
\* end and its own end (exclusive), or next = 0. The \b lets at most one
\* alternative through, so their order does not matter.
UnitMatchAt(s, i, words) ==
    LET e == NumEnd(s, i)
        u == IF e = 0 THEN 0 ELSE SpaceEnd(s, e)
        hit == IF e = 0 THEN {}
               ELSE {w \in words : HasAt(s, u, w) /\ BoundaryAt(s, u + Len(w))}
    IN  IF hit = {} THEN [num |-> 0, next |-> 0]
        ELSE [num |-> e, next |-> u + Len(CHOOSE w \in hit : TRUE)]

RECURSIVE UnitSumFirstOnly(_, _, _)
UnitSumFirstOnly(s, i, words) ==
    IF i > Len(s) THEN RZero
    ELSE LET m == UnitMatchAt(s, i, words)
         IN  IF m.next = 0 THEN UnitSumFirstOnly(s, i + 1, words)
             ELSE NumValue(SubSeq(s, i, m.num - 1))

\* the sum of float(m.group(1)) over pattern.finditer(s), from position i
RECURSIVE UnitSum(_, _, _)
UnitSum(s, i, words) ==
    IF i > Len(s) THEN RZero
    ELSE LET m == UnitMatchAt(s, i, words)
         IN  IF m.next = 0 THEN UnitSum(s, i + 1, words)
             ELSE RAdd(NumValue(SubSeq(s, i, m.num - 1)), UnitSum(s, m.next, words))

\* a match of (\d+(?:\.\d+)?)h\s*(\d+(?:\.\d+)?)m starting at i
CompactHmAt(s, i) ==
    LET e1 == NumEnd(s, i)
        ok1 == e1 # 0 /\ e1 <= Len(s) /\ s[e1] = "h"
        p2 == IF ok1 THEN SpaceEnd(s, e1 + 1) ELSE 0
        e2 == IF ok1 THEN NumEnd(s, p2) ELSE 0
    IN  IF ok1 /\ e2 # 0 /\ e2 <= Len(s) /\ s[e2] = "m"
        THEN [h |-> SubSeq(s, i, e1 - 1), mm |-> SubSeq(s, p2, e2 - 1), next |-> e2 + 1]
        ELSE [next |-> 0]

\* the sum of float(h) * 60.0 + float(mm) over re.findall(compact_hm)
RECURSIVE CompactHmSum(_, _)
CompactHmSum(s, i) ==
    IF i > Len(s) THEN RZero
    ELSE LET m == CompactHmAt(s, i)
         IN  IF m.next = 0 THEN CompactHmSum(s, i + 1)
             ELSE RAdd(RAdd(RMul(NumValue(m.h), 60), NumValue(m.mm)),
                       CompactHmSum(s, m.next))

\* a match of (\d+(?:\.\d+)?)<letter>\b starting at i
CompactAt(s, i, letter) ==
    LET e == NumEnd(s, i)
    IN  IF e # 0 /\ e <= Len(s) /\ s[e] = letter /\ BoundaryAt(s, e + 1)
        THEN [num |-> e, next |-> e + 1]
        ELSE [num |-> 0, next |-> 0]

RECURSIVE CompactSum(_, _, _)
CompactSum(s, i, letter) ==
    IF i > Len(s) THEN RZero
    ELSE LET m == CompactAt(s, i, letter)
         IN  IF m.next = 0 THEN CompactSum(s, i + 1, letter)
             ELSE RAdd(NumValue(SubSeq(s, i, m.num - 1)), CompactSum(s, m.next, letter))

\* re.search(r"(\d+(?:\.\d+)?)", s): the text of the first number, or <<>>
FirstNumber(s) ==
    LET at == {i \in 1..Len(s) : IsDecimal(s[i])}
    IN  IF at = {} THEN <<>>
        ELSE LET i == CHOOSE k \in at : \A j \in at : k <= j
             IN  SubSeq(s, i, NumEnd(s, i) - 1)

\* lines 40-48: the hour, minute and second patterns, every match summed
UnitWordTotal(s) ==
    RAdd(RAdd(RMul(UnitSum(s, 1, HourWords), 60), UnitSum(s, 1, MinuteWords)),
         RDiv(UnitSum(s, 1, SecondWords), 60))

\* lines 49-58: the three compact patterns, every match of each summed
CompactTotal(s) ==
    RAdd(RAdd(CompactHmSum(s, 1), RMul(CompactSum(s, 1, "h"), 60)), CompactSum(s, 1, "m"))

TimeFallbacksUnitsFirst(s) ==
    LET iso == IsoMatch(s)
        units == UnitWordTotal(s)
        compact == IF RIsZero(units) THEN CompactTotal(s) ELSE units
        bare == IF RIsZero(compact) /\ FirstNumber(s) # <<>>
                THEN NumValue(FirstNumber(s)) ELSE compact
    IN  IF ~RIsZero(units) THEN Ok(Round(units))
        ELSE IF iso.matched THEN Ok(Round(IsoMinutes(iso))) ELSE Ok(Round(bare))

\* lines 28-63: the stages after the clock pattern, on the string with its
\* commas and dashes replaced
TimeFallbacks(s) ==
    LET iso == IsoMatch(s)
        units == UnitWordTotal(s)
        compact == IF RIsZero(units) THEN CompactTotal(s) ELSE units
        bare == IF RIsZero(compact) /\ FirstNumber(s) # <<>>
                THEN NumValue(FirstNumber(s)) ELSE compact
    IN  IF iso.matched THEN Ok(Round(IsoMinutes(iso))) ELSE Ok(Round(bare))

\* lines 13-27: the string stages up to the clock pattern
TimeOfStr(str) ==
    LET s == Lower(Strip(str))
    IN  IF Len(s) = 0 THEN Ok(0)
        ELSE IF IsDigit(s) THEN IntOfStr(s)
        ELSE IF ClockMatch(s) THEN Ok(Round(ClockMinutes(s)))
        ELSE TimeFallbacks(Replace(Replace(Replace(s, ",", " "), "en-dash", "-"),
                                   "em-dash", "-"))

RoundNumberTruncated(a) == Ok(RoundTrunc(IF a.t = "int" THEN Rat(a.v, 1) ELSE a.v))

\* int(round(float(x))) of an int or a float
RoundNumber(a) == Ok(Round(IF a.t = "int" THEN Rat(a.v, 1) ELSE a.v))

parse_time_to_minutes(time_str) ==
    IF time_str.t = "none" THEN Ok(0)
    ELSE IF time_str.t \in {"int", "float"} THEN RoundNumber(time_str)
    ELSE TimeOfStr(time_str.s)

----------------------------------------------------------------------------
(* utils.py: parse_servings_to_int                                         *)

RangeSeparators == {"-", "en-dash", "em-dash", "t", "o"}

\* a match of (\d+)\s*[-<en-dash><em-dash>to]\s*(\d+) starting at i: the
\* end of its first number, or 0. The class is one character of the five.
RangeAt(s, i) ==
    LET e == DigitsEnd(s, i)
        p == SpaceEnd(s, e)
        q == SpaceEnd(s, p + 1)
    IN  IF e # i /\ p <= Len(s) /\ s[p] \in RangeSeparators /\ DigitsEnd(s, q) # q
        THEN e ELSE 0

\* re.search of the range pattern: group(1) of the leftmost match, or <<>>
RangeFirst(s) ==
    LET at == {i \in 1..Len(s) : RangeAt(s, i) # 0}
    IN  IF at = {} THEN <<>>
        ELSE LET i == CHOOSE k \in at : \A j \in at : k <= j
             IN  SubSeq(s, i, RangeAt(s, i) - 1)

ServingsOfStr(str) ==
    LET s == Lower(Strip(str))
    IN  IF Len(s) = 0 THEN Ok(0)
        ELSE IF IsDigit(s) THEN IntOfStr(s)
        ELSE IF RangeFirst(s) # <<>> THEN Ok(DecValue(RangeFirst(s)))
        ELSE IF FirstNumber(s) # <<>> THEN Ok(Round(NumValue(FirstNumber(s))))
        ELSE Ok(0)

parse_servings_to_int(servings_str) ==
    IF servings_str.t = "none" THEN Ok(0)
    ELSE IF servings_str.t \in {"int", "float"} THEN RoundNumber(servings_str)
    ELSE ServingsOfStr(servings_str.s)

----------------------------------------------------------------------------
(* utils.py: get_platform                                                  *)

TIKTOK_COM == <<"t", "i", "k", "t", "o", "k", ".", "c", "o", "m">>
YOUTUBE_COM == <<"y", "o", "u", "t", "u", "b", "e", ".", "c", "o", "m">>
YOUTU_BE == <<"y", "o", "u", "t", "u", ".", "b", "e">>

get_platform_case_sensitive(url) ==
    IF Contains(url, TIKTOK_COM) THEN "tiktok"
    ELSE IF Contains(url, YOUTUBE_COM) \/ Contains(url, YOUTU_BE) THEN "youtube"
    ELSE "website"

get_platform(url) ==
    LET url_lower == Lower(url)
    IN  IF Contains(url_lower, TIKTOK_COM) THEN "tiktok"
        ELSE IF Contains(url_lower, YOUTUBE_COM) \/ Contains(url_lower, YOUTU_BE) THEN "youtube"
        ELSE "website"

----------------------------------------------------------------------------
(* The callers' side: str() of a result, and the arguments they build      *)

RECURSIVE DigitsOf(_)
DigitsOf(n) == IF n < 10 THEN <<DecDigits[n + 1]>>
               ELSE DigitsOf(n \div 10) \o <<DecDigits[(n % 10) + 1]>>

\* Python's str(n) of an int
StrOfInt(n) == IF n < 0 THEN <<"-">> \o DigitsOf(-n) ELSE DigitsOf(n)

\* the decimal text of t tenths: "30" for 300, "1.5" for 15
TenthsText(t) == IF t % 10 = 0 THEN DigitsOf(t \div 10)
                 ELSE DigitsOf(t \div 10) \o <<".">> \o DigitsOf(t % 10)

RECURSIVE Concat(_)
Concat(parts) == IF Len(parts) = 0 THEN <<>> ELSE Head(parts) \o Concat(Tail(parts))

RECURSIVE SeqsUpTo(_, _)
SeqsUpTo(S, n) == IF n = 0 THEN {<<>>}
                  ELSE LET shorter == SeqsUpTo(S, n - 1)
                       IN  shorter \cup {Append(q, x) : q \in shorter, x \in S}

PyNone == [t |-> "none"]
PyInt(v) == [t |-> "int", v |-> v]
PyFloat(a) == [t |-> "float", v |-> a]
PyStr(s) == [t |-> "str", s |-> s]

MaxNumber == 3
MaxBlank == 2
MaxTokens == 2

NormVocab == {<<"1">>, <<"3", "0">>, <<"2", ".", "5">>, <<"-">>, <<"sup2">>, <<" ">>,
              <<"h">>, <<"m", "i", "n">>, <<":">>, <<"P", "T">>, <<"x">>, <<"t", "o">>}

\* the arguments of the totality, numeric and stability checks: None, ints,
\* floats in quarters, whitespace-only strings and short texts
NormGiven ==
    {[kind |-> "none"]}
    \cup {[kind |-> "int", v |-> v] : v \in (-MaxNumber)..MaxNumber}
    \cup {[kind |-> "float", q |-> q] : q \in (-4 * MaxNumber)..(4 * MaxNumber)}
    \cup {[kind |-> "blank", ws |-> w] : w \in SeqsUpTo({" ", "\t"}, MaxBlank)}
    \cup {[kind |-> "text", toks |-> w] : w \in SeqsUpTo(NormVocab, MaxTokens) \ {<<>>}}

NormArg(g) ==
    CASE g.kind = "none" -> PyNone
      [] g.kind = "int" -> PyInt(g.v)
      [] g.kind = "float" -> PyFloat(Rat(g.q, 4))
      [] g.kind = "blank" -> PyStr(g.ws)
      [] g.kind = "text" -> PyStr(Concat(g.toks))

\* no upload_image_if_configured invocation under way
UpInit == [pc |-> "idle", entry |-> "", image_url |-> <<>>, env |-> [key |-> "", secret |-> "",
           bucket |-> <<>>, region |-> <<>>], s3_client |-> "none", bucket_name |-> <<>>,
           log |-> <<>>, download |-> "", content_type |-> <<>>, key |-> <<>>, put |-> "",
           result |-> NoValue, out |-> NoValue, calls |-> 0]

----------------------------------------------------------------------------
(* Actions: one call of a function, and the stability round trip           *)

CallParseTime ==
    /\ pc = "call"
    /\ fn = "parse_time_to_minutes"
    /\ ret' = parse_time_to_minutes(arg)
    /\ pc' = "done"
    /\ UNCHANGED <<fn, arg, given, first, up>>

CallParseServings ==
    /\ pc = "call"
    /\ fn = "parse_servings_to_int"
    /\ ret' = parse_servings_to_int(arg)
    /\ pc' = "done"
    /\ UNCHANGED <<fn, arg, given, first, up>>

CallGetPlatform ==
    /\ pc = "call"
    /\ fn = "get_platform"
    /\ ret' = Ok(get_platform(arg.s))
    /\ pc' = "done"
    /\ UNCHANGED <<fn, arg, given, first, up>>

\* the caller normalizes str(result) again
Renormalize ==
    /\ pc = "done"
    /\ fn = "parse_time_to_minutes"
    /\ first = NoValue
    /\ ret.ok
    /\ first' = ret
    /\ arg' = PyStr(StrOfInt(ret.v))
    /\ pc' = "call"
    /\ UNCHANGED <<fn, given, ret, up>>

InitNorm ==
    /\ fn \in {"parse_time_to_minutes", "parse_servings_to_int"}
    /\ given \in NormGiven
    /\ arg = NormArg(given)
    /\ pc = "call"
    /\ ret = NoValue
    /\ first = NoValue
    /\ up = UpInit

NextNorm == CallParseTime \/ CallParseServings \/ Renormalize

SpecNorm == InitNorm /\ [][NextNorm]_vars

\* the rational a numeric argument stands for
NumericValue(g) == IF g.kind = "int" THEN Rat(g.v, 1) ELSE Rat(g.q, 4)

\* C1 (as stated): both normalizers return an integer >= 0 for every input
\* and never raise.
C1_TotalNonNegative ==
    (pc = "done" /\ first = NoValue) => (ret.ok /\ ret.v \in Nat)

\* C2: a numeric argument n gives the integer nearest to n (a tie gives the
\* even one, as round() does), whatever the function; None and an empty or
\* whitespace-only string give 0.
C2_NumericRound ==
    (pc = "done" /\ first = NoValue) =>
        /\ given.kind \in {"int", "float"} =>
              LET n == NumericValue(given)
                  off == ret.v * n[2] - n[1]
                  dist == IF off < 0 THEN -off ELSE off
              IN  /\ ret.ok
                  /\ 2 * dist <= n[2]
                  /\ (2 * dist = n[2]) => (ret.v % 2 = 0)
        /\ given.kind \in {"none", "blank"} => ret = Ok(0)

C2_Witness ==
    /\ pc = "done" /\ first = NoValue
    /\ fn = "parse_servings_to_int"
    /\ given = [kind |-> "float", q |-> 10]
    /\ ret = Ok(2)

\* C3 (as stated): normalizing the string form of a result of the duration
\* normalizer returns that result again.
C3_Stable ==
    (pc = "done" /\ first # NoValue) => ret = first

----------------------------------------------------------------------------
(* The three whole-string grammars: pure digits, clock, ISO PT            *)

MaxHours == 2

DigitValues == {0, 5, 45, 90, 120}
ClockFields == {0, 5, 30, 45}
IsoTenths == {0, 10, 15, 300, 900}
\* an optional field or regex group that is not there
Absent == -1

Pads == {<<>>, <<" ">>}

\* a field of a clock string, zero-padded to two digits when asked
ClockField(v, two) == IF two /\ v < 10 THEN <<"0">> \o DigitsOf(v) ELSE DigitsOf(v)

IsoPart(t, letter) == IF t = Absent THEN <<>> ELSE TenthsText(t) \o <<letter>>

GrammarGiven ==
    {[kind |-> "digits", n |-> n, zero |-> z, pad |-> p] :
        n \in DigitValues, z \in BOOLEAN, p \in Pads}
    \cup {[kind |-> "clock", h |-> h, m |-> m, s |-> s, two |-> two, pad |-> p] :
        h \in 0..MaxHours, m \in ClockFields, s \in ClockFields \cup {Absent},
        two \in BOOLEAN, p \in Pads}
    \cup {[kind |-> "iso", h |-> h, m |-> m, s |-> s, upper |-> u, pad |-> p] :
        h \in IsoTenths \cup {Absent}, m \in IsoTenths \cup {Absent},
        s \in IsoTenths \cup {Absent}, u \in BOOLEAN, p \in Pads}

GrammarText(g) ==
    CASE g.kind = "digits" -> (IF g.zero THEN <<"0">> ELSE <<>>) \o DigitsOf(g.n)
      [] g.kind = "clock" ->
            DigitsOf(g.h) \o <<":">> \o ClockField(g.m, g.two)
            \o (IF g.s = Absent THEN <<>> ELSE <<":">> \o ClockField(g.s, g.two))
      [] g.kind = "iso" ->
            IF g.upper
            THEN <<"P", "T">> \o IsoPart(g.h, "H") \o IsoPart(g.m, "M") \o IsoPart(g.s, "S")
            ELSE <<"p", "t">> \o IsoPart(g.h, "h") \o IsoPart(g.m, "m") \o IsoPart(g.s, "s")

GrammarArg(g) == PyStr(g.pad \o GrammarText(g) \o g.pad)

Present(t) == IF t = Absent THEN 0 ELSE t

\* what the grammar that matches the whole string says the duration is
GrammarMinutes(g) ==
    CASE g.kind = "digits" -> g.n
      [] g.kind = "clock" -> Round(Rat(60 * (60 * g.h + g.m) + Present(g.s), 60))
      [] g.kind = "iso" ->
            Round(Rat(60 * (60 * Present(g.h) + Present(g.m)) + Present(g.s), 600))

InitGrammar ==
    /\ fn = "parse_time_to_minutes"
    /\ given \in GrammarGiven
    /\ arg = GrammarArg(given)
    /\ pc = "call"
    /\ ret = NoValue
    /\ first = NoValue
    /\ up = UpInit

NextGrammar == CallParseTime

SpecGrammar == InitGrammar /\ [][NextGrammar]_vars

\* C5: a string that is, once trimmed and lower-cased, wholly a pure-digit,
\* clock or ISO PT string gets the value of that grammar alone: the integer
\* itself, or round(60 * hours + minutes + seconds / 60); the unit-word,
\* compact and bare-number stages add nothing to it.
C5_GrammarPriority ==
    pc = "done" => ret = Ok(GrammarMinutes(given))

\* an ISO string of 1 h 30 m in which the unit-word stage, if it ran, would
\* find "30m"
C5_Witness ==
    /\ pc = "done"
    /\ given.kind = "iso" /\ given.h = 10 /\ given.m = 300 /\ given.s = Absent
    /\ ~RIsZero(UnitWordTotal(Lower(Strip(arg.s))))
    /\ ret = Ok(90)

----------------------------------------------------------------------------
(* Unit-word texts: numbers followed by unit words                         *)

MaxItems == 2

UnitTenths == {0, 10, 15, 300}

UnitVocab == {[word |-> <<"h", "o", "u", "r", "s">>, unit |-> "h"],
              [word |-> <<"h", "r">>, unit |-> "h"],
              [word |-> <<"h">>, unit |-> "h"],
              [word |-> <<"m", "i", "n">>, unit |-> "m"],
              [word |-> <<"m">>, unit |-> "m"],
              [word |-> <<"s", "e", "c">>, unit |-> "s"]}

UnitItems == {[t |-> t, w |-> w] : t \in UnitTenths, w \in UnitVocab}

Gaps == {<<>>, <<" ">>}

\* "1hr30min", "1hr 30min", "1 hr 30 min" and "1 hr, 30 min"
Layouts == {[gap |-> <<>>, join |-> <<>>], [gap |-> <<>>, join |-> <<" ">>],
            [gap |-> <<" ">>, join |-> <<" ">>], [gap |-> <<" ">>, join |-> <<",", " ">>]}

UnitsGiven ==
    {[kind |-> "units", items |-> q, gap |-> l.gap, join |-> l.join] :
        q \in SeqsUpTo(UnitItems, MaxItems) \ {<<>>}, l \in Layouts}

RECURSIVE UnitsText(_, _, _)
UnitsText(items, gap, join) ==
    IF Len(items) = 0 THEN <<>>
    ELSE TenthsText(Head(items).t) \o gap \o Head(items).w.word
         \o (IF Len(items) = 1 THEN <<>> ELSE join \o UnitsText(Tail(items), gap, join))

UnitsArg(g) == PyStr(UnitsText(g.items, g.gap, g.join))

\* an item's unit word is a whole word when the text ends after it or a
\* character that is no letter or digit follows it
WholeWord(g, k) == k = Len(g.items) \/ g.join # <<>>

\* in 600ths of a minute: 60 * hours + minutes + seconds / 60 over the
\* whole-word items, each number in tenths
RECURSIVE MarkedSum(_, _)
MarkedSum(g, k) ==
    IF k > Len(g.items) THEN 0
    ELSE (IF WholeWord(g, k)
          THEN g.items[k].t * (CASE g.items[k].w.unit = "h" -> 3600
                                 [] g.items[k].w.unit = "m" -> 60
                                 [] g.items[k].w.unit = "s" -> 1)
          ELSE 0) + MarkedSum(g, k + 1)

InitUnits ==
    /\ fn = "parse_time_to_minutes"
    /\ given \in UnitsGiven
    /\ arg = UnitsArg(given)
    /\ pc = "call"
    /\ ret = NoValue
    /\ first = NoValue
    /\ up = UpInit

NextUnits == CallParseTime

SpecUnits == InitUnits /\ [][NextUnits]_vars

\* C4 (as stated): <H><hour unit><M><minute unit> written without any
\* space gives 60 * H + M.
C4_CompactSummed ==
    (/\ pc = "done"
     /\ Len(given.items) = 2
     /\ given.gap = <<>> /\ given.join = <<>>
     /\ given.items[1].w.unit = "h" /\ given.items[2].w.unit = "m"
     /\ given.items[1].t % 10 = 0 /\ given.items[2].t % 10 = 0)
    => ret = Ok(60 * (given.items[1].t \div 10) + (given.items[2].t \div 10))

\* C6: a text of unit-marked numbers gives round(60 * hours + minutes +
\* seconds / 60) summed over every whole-word occurrence, not only the
\* first, whenever that sum is not zero.
C6_UnitWordsSummed ==
    (pc = "done" /\ MarkedSum(given, 1) # 0)
    => ret = Ok(Round(Rat(MarkedSum(given, 1), 600)))

\* two hour-marked numbers and both counted: "1.5 hr, 30 hours" is 1890
C6_Witness ==
    /\ pc = "done"
    /\ Len(given.items) = 2
    /\ given.items[1].w.unit = "h" /\ given.items[2].w.unit = "h"
    /\ given.items[1].t = 15 /\ given.items[2].t = 300
    /\ given.join = <<",", " ">>
    /\ ret = Ok(1890)

----------------------------------------------------------------------------
(* Servings texts                                                          *)

MaxServings == 12

ServingNumbers == {4, MaxServings}
ServingUppers == {6, 15}
ServingTenths == {5, 40, 45, 125}

\* the separators of a range as the specification lists them
RangeWords == {<<"-">>, <<"en-dash">>, <<"em-dash">>, <<"t", "o">>}

ServingPrefixes == {<<>>, <<"s", "e", "r", "v", "e", "s", " ">>, <<"2", " ", "o", "r", " ">>}
PlainPrefixes == {<<>>, <<"s", "e", "r", "v", "e", "s", " ">>}
ServingSuffixes == {<<>>, <<" ", "s", "e", "r", "v", "i", "n", "g", "s">>}

ServingsGiven ==
    {[kind |-> "range", pre |-> pre, a |-> a, lsp |-> l, sep |-> sep, rsp |-> r,
      b |-> b, post |-> post] :
        pre \in ServingPrefixes, a \in ServingNumbers, l \in Gaps, sep \in RangeWords,
        r \in Gaps, b \in ServingUppers, post \in ServingSuffixes}
    \cup {[kind |-> "single", pre |-> pre, t |-> t, post |-> post] :
        pre \in PlainPrefixes, t \in ServingTenths, post \in ServingSuffixes}
    \cup {[kind |-> "nonumber", pre |-> pre, post |-> post] :
        pre \in PlainPrefixes, post \in ServingSuffixes}

ServingsArg(g) ==
    CASE g.kind = "range" ->
            PyStr(g.pre \o DigitsOf(g.a) \o g.lsp \o g.sep \o g.rsp \o DigitsOf(g.b) \o g.post)
      [] g.kind = "single" -> PyStr(g.pre \o TenthsText(g.t) \o g.post)
      [] g.kind = "nonumber" -> PyStr(g.pre \o g.post)

InitServings ==
    /\ fn = "parse_servings_to_int"
    /\ given \in ServingsGiven
    /\ arg = ServingsArg(given)
    /\ pc = "call"
    /\ ret = NoValue
    /\ first = NoValue
    /\ up = UpInit

NextServings == CallParseServings

SpecServings == InitServings /\ [][NextServings]_vars

\* C7 (as stated): a text with a range, written with '-', an en-dash, an
\* em-dash or the word "to", gives the first number of that range; a text
\* with one number and no range gives that number rounded; a text with no
\* number gives 0.
C7_RangePolicy ==
    (pc = "done" /\ ~IsDigit(Lower(Strip(arg.s)))) =>
        CASE given.kind = "range" -> ret = Ok(given.a)
          [] given.kind = "single" -> ret = Ok(Round(Rat(given.t, 10)))
          [] given.kind = "nonumber" -> ret = Ok(0)

----------------------------------------------------------------------------
(* URLs                                                                    *)

MaxSegments == 2

Schemes == {<<>>, <<"h", "t", "t", "p", ":", "/", "/">>, <<"h", "t", "t", "p", "s", ":", "/", "/">>}

\* hosts and query strings, each with the platforms whose domain it holds
Hosts == {[text |-> <<"t", "i", "k", "t", "o", "k", ".", "c", "o", "m">>, tiktok |-> TRUE, youtube |-> FALSE],
          [text |-> <<"w", "w", "w", ".", "T", "i", "k", "T", "o", "k", ".", "c", "o", "m">>, tiktok |-> TRUE, youtube |-> FALSE],
          [text |-> <<"y", "o", "u", "t", "u", "b", "e", ".", "c", "o", "m">>, tiktok |-> FALSE, youtube |-> TRUE],
          [text |-> <<"m", ".", "Y", "o", "u", "T", "u", "b", "e", ".", "C", "O", "M">>, tiktok |-> FALSE, youtube |-> TRUE],
          [text |-> <<"y", "o", "u", "t", "u", ".", "b", "e">>, tiktok |-> FALSE, youtube |-> TRUE],
          [text |-> <<"e", "x", "a", "m", "p", "l", "e", ".", "c", "o", "m">>, tiktok |-> FALSE, youtube |-> FALSE],
          [text |-> <<"t", "i", "k", "t", "o", "k", ".", "c", "o">>, tiktok |-> FALSE, youtube |-> FALSE],
          [text |-> <<"y", "o", "u", "t", "u", "b", "e", ".", "o", "r", "g">>, tiktok |-> FALSE, youtube |-> FALSE]}

Queries == {[text |-> <<>>, tiktok |-> FALSE, youtube |-> FALSE],
            [text |-> <<"?", "v", "=", "1">>, tiktok |-> FALSE, youtube |-> FALSE],
            [text |-> <<"?", "u", "=", "h", "t", "t", "p", "s", ":", "/", "/", "t", "i", "k", "t", "o", "k", ".", "c", "o", "m", "/", "x">>, tiktok |-> TRUE, youtube |-> FALSE],
            [text |-> <<"?", "r", "e", "f", "=", "Y", "o", "u", "T", "u", ".", "b", "e">>, tiktok |-> FALSE, youtube |-> TRUE]}

Segments == {<<"/", "w", "a", "t", "c", "h">>, <<"/", "@", "c", "h", "e", "f">>}

UrlGiven ==
    {[kind |-> "url", scheme |-> s, host |-> h, path |-> p, query |-> q] :
        s \in Schemes, h \in Hosts, p \in SeqsUpTo(Segments, MaxSegments), q \in Queries}

UrlArg(g) == PyStr(g.scheme \o g.host.text \o Concat(g.path) \o g.query.text)

InitPlatform ==
    /\ fn = "get_platform"
    /\ given \in UrlGiven
    /\ arg = UrlArg(given)
    /\ pc = "call"
    /\ ret = NoValue
    /\ first = NoValue
    /\ up = UpInit

NextPlatform == CallGetPlatform

SpecPlatform == InitPlatform /\ [][NextPlatform]_vars

HoldsTikTok(g) == g.host.tiktok \/ g.query.tiktok
HoldsYouTube(g) == g.host.youtube \/ g.query.youtube

\* C8 (as stated): a URL that holds a platform's domain gets that
\* platform's tag, whatever its scheme, path and query string; a URL that
\* holds none gets "website".
C8_PlatformOfDomain ==
    pc = "done" =>
        /\ ret.v \in {"tiktok", "youtube", "website"}
        /\ HoldsTikTok(given) => ret.v = "tiktok"
        /\ HoldsYouTube(given) => ret.v = "youtube"
        /\ (~HoldsTikTok(given) /\ ~HoldsYouTube(given)) => ret.v = "website"

\* C8 (amended): a URL that holds "tiktok.com" gets "tiktok"; one that holds
\* "youtube.com" or "youtu.be" and not "tiktok.com" gets "youtube"; every
\* other URL gets "website".
C8_PlatformTikTokFirst ==
    pc = "done" =>
        /\ ret.v \in {"tiktok", "youtube", "website"}
        /\ HoldsTikTok(given) => ret.v = "tiktok"
        /\ (HoldsYouTube(given) /\ ~HoldsTikTok(given)) => ret.v = "youtube"
        /\ (~HoldsTikTok(given) /\ ~HoldsYouTube(given)) => ret.v = "website"

\* an upper-case short domain behind a scheme, with a path and a query
C8_Witness ==
    /\ pc = "done"
    /\ given.host.text = <<"m", ".", "Y", "o", "u", "T", "u", "b", "e", ".", "C", "O", "M">>
    /\ given.scheme = <<"h", "t", "t", "p", "s", ":", "/", "/">>
    /\ Len(given.path) = 2
    /\ given.query.text = <<"?", "v", "=", "1">>
    /\ ret = Ok("youtube")

----------------------------------------------------------------------------
(* s3_upload.py. A str is a sequence of characters, "" and None both <<>>  *)
(* where the code only tests "not x".                                      *)

MaxCalls == 1

ALLOWED_EXTENSIONS == {<<"j", "p", "g">>, <<"j", "p", "e", "g">>, <<"p", "n", "g">>, <<"w", "e", "b", "p">>, <<"g", "i", "f">>, <<"s", "v", "g">>}

\* urlparse(url).path of an http(s) URL: from the first "/" after "://" up
\* to the "?" or "#"
UrlPath(url) ==
    LET sch == {i \in 1..Len(url) : HasAt(url, i, <<":", "/", "/">>)}
        from == IF sch = {} THEN 1 ELSE (CHOOSE i \in sch : \A j \in sch : i <= j) + 3
        slash == {i \in from..Len(url) : url[i] = "/"}
        start == IF slash = {} THEN Len(url) + 1 ELSE CHOOSE i \in slash : \A j \in slash : i <= j
        stop == {i \in start..Len(url) : url[i] \in {"?", "#"}}
        end == IF stop = {} THEN Len(url) ELSE (CHOOSE i \in stop : \A j \in stop : i <= j) - 1
    IN  SubSeq(url, start, end)

\* mimetypes.guess_extension(content_type), without its leading dot
GuessExtension(content_type) ==
    CASE content_type = <<"i", "m", "a", "g", "e", "/", "j", "p", "e", "g">> -> <<"j", "p", "g">>
      [] content_type = <<"i", "m", "a", "g", "e", "/", "p", "n", "g">> -> <<"p", "n", "g">>
      [] content_type = <<"t", "e", "x", "t", "/", "h", "t", "m", "l">> -> <<"h", "t", "m", "l">>
      [] OTHER -> <<>>

get_extension_from_url(url, content_type) ==
    LET path == UrlPath(url)
        parts == Split(path, ".")
        ext == Lower(parts[Len(parts)])
        guess == GuessExtension(content_type)
    IN  IF Contains(path, <<".">>) /\ ext \in ALLOWED_EXTENSIONS THEN ext
        ELSE IF content_type # <<>> /\ guess # <<>> /\ guess \in ALLOWED_EXTENSIONS THEN guess
        ELSE <<"j", "p", "g">>

\* hex timestamp, "-", five random hex digits, ".", extension
generate_unique_filename(stamp, random_hex, extension) ==
    IF extension # <<>> THEN stamp \o <<"-">> \o random_hex \o <<".">> \o extension
    ELSE stamp \o <<"-">> \o random_hex

StorageKey(filename) == <<"u", "p", "l", "o", "a", "d", "s", "/", "s", "c", "r", "a", "p", "e", "r", "/">> \o filename

DEFAULT_REGION == <<"u", "s", "-", "e", "a", "s", "t", "-", "1">>

S3Url(bucket_name, aws_region, key) ==
    <<"h", "t", "t", "p", "s", ":", "/", "/">> \o bucket_name \o <<".", "s", "3", ".">> \o aws_region \o <<".", "a", "m", "a", "z", "o", "n", "a", "w", "s", ".", "c", "o", "m", "/">> \o key

\* os.getenv("AWS_REGION", "us-east-1")
RegionOf(env) == IF env.region = <<>> THEN DEFAULT_REGION ELSE env.region

Failure(url) == [success |-> FALSE, url |-> url, key |-> <<>>]

CaughtRequestErrorsOnly(exc) == exc \in {"RequestException", "HTTPError"}

\* lines 163-169: the handlers of the try block, HTTPError being a
\* RequestException and every other error an Exception
Caught(exc) == exc \in {"RequestException", "HTTPError"} \/ exc \in {"ClientError", "Exception"}

ImageUrls == {<<>>, <<"h", "t", "t", "p", "s", ":", "/", "/", "i", "m", "g", ".", "e", "x", "a", "m", "p", "l", "e", ".", "c", "o", "m", "/", "a", "/", "p", "h", "o", "t", "o", ".", "P", "N", "G", "?", "w", "=", "1">>, <<"h", "t", "t", "p", ":", "/", "/", "c", "d", "n", ".", "e", "x", "a", "m", "p", "l", "e", ".", "c", "o", "m", "/", "i", "m", "a", "g", "e">>}

Environments ==
    [key : {"", "AKIA"}, secret : {"", "s3cr3t"}, bucket : {<<>>, <<"r", "e", "c", "i", "p", "e", "s">>},
     region : {<<>>, <<"e", "u", "-", "w", "e", "s", "t", "-", "1">>}]

ContentTypes == {<<"i", "m", "a", "g", "e", "/", "j", "p", "e", "g">>, <<"t", "e", "x", "t", "/", "h", "t", "m", "l">>}
Stamps == {<<"1", "8", "f", "3", "a">>}
RandomHex == {<<"0", "0", "0", "0", "0">>, <<"f", "f", "f", "f", "f">>}

\* a caller invokes upload_image_if_configured(image_url), or
\* upload_image_from_url(image_url, s3_client, bucket_name) itself
Invoke ==
    /\ up.pc \in {"idle", "returned", "raised"}
    /\ up.calls < MaxCalls
    /\ \E url \in ImageUrls, env \in Environments :
          \/ up' = [UpInit EXCEPT !.pc = "wrapper", !.entry = "upload_image_if_configured",
                                  !.image_url = url, !.env = env, !.calls = up.calls + 1]
          \/ \E client \in {"none", "client"}, bucket \in {<<>>, <<"p", "h", "o", "t", "o", "s">>} :
                up' = [UpInit EXCEPT !.pc = "from_url", !.entry = "upload_image_from_url",
                                     !.image_url = url, !.env = env, !.s3_client = client,
                                     !.bucket_name = bucket, !.calls = up.calls + 1]
    /\ UNCHANGED <<fn, arg, given, pc, ret, first>>

\* upload_image_from_url returns result: to its caller, or to the wrapper
Return(result) ==
    [up EXCEPT !.result = result,
               !.pc = IF up.entry = "upload_image_if_configured" THEN "inner_done"
                      ELSE "returned"]

\* an exception in the try block: handled, or leaving the function
Throw(exc) == IF Caught(exc) THEN Return(Failure(up.image_url)) ELSE [up EXCEPT !.pc = "raised"]

\* lines 184-187
WrapperEnter ==
    /\ up.pc = "wrapper"
    /\ up' = IF up.image_url = <<>>
             THEN [up EXCEPT !.out = [url |-> <<>>, key |-> <<>>], !.pc = "returned"]
             ELSE [up EXCEPT !.pc = "from_url"]
    /\ UNCHANGED <<fn, arg, given, pc, ret, first>>

\* lines 102-104
CheckUrl ==
    /\ up.pc = "from_url"
    /\ up' = IF up.image_url = <<>> THEN Return(Failure(<<>>)) ELSE [up EXCEPT !.pc = "client"]
    /\ UNCHANGED <<fn, arg, given, pc, ret, first>>

\* lines 19-40: None without both credentials or when boto3.client raises
get_s3_client(env, boto3_raises) ==
    IF env.key = "" \/ env.secret = "" THEN "none"
    ELSE IF boto3_raises THEN "none" ELSE "client"

\* lines 107-112
GetClient ==
    /\ up.pc = "client"
    /\ \E boto3_raises \in BOOLEAN :
          LET s3_client == IF up.s3_client = "none" THEN get_s3_client(up.env, boto3_raises)
                           ELSE up.s3_client
          IN  up' = IF s3_client = "none" THEN Return(Failure(up.image_url))
                    ELSE [up EXCEPT !.s3_client = s3_client, !.pc = "bucket"]
    /\ UNCHANGED <<fn, arg, given, pc, ret, first>>

GetBucketUnchecked ==
    /\ up.pc = "bucket"
    /\ LET bucket_name == IF up.bucket_name = <<>> THEN up.env.bucket ELSE up.bucket_name
       IN  up' = [up EXCEPT !.bucket_name = bucket_name, !.pc = "download"]
    /\ UNCHANGED <<fn, arg, given, pc, ret, first>>

\* lines 115-120
GetBucket ==
    /\ up.pc = "bucket"
    /\ LET bucket_name == IF up.bucket_name = <<>> THEN up.env.bucket ELSE up.bucket_name
       IN  up' = IF bucket_name = <<>> THEN Return(Failure(up.image_url))
                 ELSE [up EXCEPT !.bucket_name = bucket_name, !.pc = "download"]
    /\ UNCHANGED <<fn, arg, given, pc, ret, first>>

\* lines 126-134: requests.get and raise_for_status
Download ==
    /\ up.pc = "download"
    /\ \E outcome \in {"ok", "RequestException", "HTTPError", "Exception"} :
          LET sent == [up EXCEPT !.log = Append(up.log, "GET"), !.download = outcome]
          IN  IF outcome = "ok"
              THEN \E ct \in ContentTypes : up' = [sent EXCEPT !.content_type = ct, !.pc = "put"]
              ELSE up' = [Throw(outcome) EXCEPT !.log = sent.log, !.download = outcome]
    /\ UNCHANGED <<fn, arg, given, pc, ret, first>>

\* lines 137-153: the key, then response.content, then put_object
PutObject ==
    /\ up.pc = "put"
    /\ \E stamp \in Stamps, random_hex \in RandomHex,
          outcome \in {"ok", "ClientError", "content:RequestException"} :
          LET extension == get_extension_from_url(up.image_url, up.content_type)
              key == StorageKey(generate_unique_filename(stamp, random_hex, extension))
          IN  CASE outcome = "ok" ->
                     up' = [up EXCEPT !.key = key, !.log = Append(up.log, "PUT"),
                                      !.put = "ok", !.pc = "uploaded"]
                [] outcome = "ClientError" ->
                     up' = [Throw("ClientError") EXCEPT !.key = key,
                                !.log = Append(up.log, "PUT"), !.put = "ClientError"]
                [] outcome = "content:RequestException" ->
                     up' = [Throw("RequestException") EXCEPT !.key = key]
    /\ UNCHANGED <<fn, arg, given, pc, ret, first>>

\* lines 156-161
ReturnSuccess ==
    /\ up.pc = "uploaded"
    /\ up' = Return([success |-> TRUE, url |-> S3Url(up.bucket_name, RegionOf(up.env), up.key),
                     key |-> up.key])
    /\ UNCHANGED <<fn, arg, given, pc, ret, first>>

\* lines 189-193
WrapperReturn ==
    /\ up.pc = "inner_done"
    /\ up' = [up EXCEPT !.pc = "returned",
                        !.out = IF up.result.success
                                THEN [url |-> up.result.url, key |-> up.result.key]
                                ELSE [url |-> up.image_url, key |-> <<>>]]
    /\ UNCHANGED <<fn, arg, given, pc, ret, first>>

InitUpload ==
    /\ fn = "upload_image_if_configured"
    /\ arg = PyNone
    /\ given = [kind |-> "upload"]
    /\ pc = "done"
    /\ ret = NoValue
    /\ first = NoValue
    /\ up = UpInit

NextUpload ==
    \/ Invoke
    \/ WrapperEnter
    \/ CheckUrl
    \/ GetClient
    \/ GetBucket
    \/ Download
    \/ PutObject
    \/ ReturnSuccess
    \/ WrapperReturn

SpecUpload == InitUpload /\ [][NextUpload]_vars

Uploaded == up.download = "ok" /\ up.put = "ok"

\* C9: upload_image_if_configured never raises and returns a url/key pair:
\* the S3 URL and a non-empty key exactly when the download and the
\* put_object both succeeded, which takes credentials and a bucket; in every
\* other outcome the image URL as given and the key "".
C9_WrapperResult ==
    /\ up.pc # "raised"
    /\ (up.pc = "returned" /\ up.entry = "upload_image_if_configured") =>
          IF Uploaded
          THEN /\ up.out.key # <<>>
               /\ HasAt(up.out.key, 1, <<"u", "p", "l", "o", "a", "d", "s", "/", "s", "c", "r", "a", "p", "e", "r", "/">>)
               /\ up.out.url = <<"h", "t", "t", "p", "s", ":", "/", "/">> \o up.env.bucket \o <<".", "s", "3", ".">>
                               \o (IF up.env.region = <<>> THEN <<"u", "s", "-", "e", "a", "s", "t", "-", "1">> ELSE up.env.region)
                               \o <<".", "a", "m", "a", "z", "o", "n", "a", "w", "s", ".", "c", "o", "m", "/">> \o up.out.key
               /\ up.env.key # "" /\ up.env.secret # "" /\ up.env.bucket # <<>>
          ELSE up.out = [url |-> up.image_url, key |-> <<>>]

\* the wrapper returned the original URL because put_object failed
C9_Witness ==
    /\ up.pc = "returned" /\ up.entry = "upload_image_if_configured"
    /\ up.download = "ok" /\ up.put = "ClientError"
    /\ up.image_url # <<>>
    /\ up.out = [url |-> up.image_url, key |-> <<>>]

Count(log, e) == Cardinality({i \in 1..Len(log) : log[i] = e})

\* C10: in upload_image_from_url no download is issued unless the image
\* URL is non-empty, an S3 client is available and a bucket name is known;
\* put_object is called at most once and only after a download that
\* succeeded; success = True is returned only after put_object succeeded.
C10_EffectOrder ==
    /\ Count(up.log, "GET") > 0 =>
          up.image_url # <<>> /\ up.s3_client = "client" /\ up.bucket_name # <<>>
    /\ Count(up.log, "PUT") <= 1
    /\ Count(up.log, "PUT") = 1 => (up.log = <<"GET", "PUT">> /\ up.download = "ok")
    /\ (up.result # NoValue /\ up.result.success) =>
          (up.log = <<"GET", "PUT">> /\ up.put = "ok")

\* a direct call with a client and a bucket of its own that uploaded
C10_Witness ==
    /\ up.entry = "upload_image_from_url"
    /\ up.pc = "returned"
    /\ up.env.key = "" /\ up.env.bucket = <<>>
    /\ up.result # NoValue /\ up.result.success
    /\ up.log = <<"GET", "PUT">>

----------------------------------------------------------------------------
(* Everything together                                                     *)

Init ==
    \/ InitNorm
    \/ InitGrammar
    \/ InitUnits
    \/ InitServings
    \/ InitPlatform
    \/ InitUpload

Next ==
    \/ CallParseTime
    \/ CallParseServings
    \/ CallGetPlatform
    \/ Renormalize
    \/ NextUpload

Spec == Init /\ [][Next]_vars

====
